---- MODULE Spec2Model ----
(***************************************************************************)
(* The adaptive burst-and-resume controller of                             *)
(* benchmarks/terminal_bench/adaptive_bench.py (class AdaptiveBench) as a  *)
(* state machine: the controller's fields, the runs directory with each    *)
(* run's tb.lock and results.json, the terminal-bench child process, and   *)
(* the position of run() between its two blocking calls (subprocess.run    *)
(* and time.sleep).                                                        *)
(***************************************************************************)
EXTENDS Integers, Sequences, FiniteSets, TLC

VARIABLES
    pc,                 \* position of run(): NOT_STARTED, BURST, SLEEP, COMPLETED, FAILED, INTERRUPTED
    load_threshold,     \* self.load_threshold (load is measured in the same integer unit)
    max_concurrent,     \* self.max_concurrent
    current_concurrent, \* self.current_concurrent
    run_id,             \* self.run_id (NoRun models None)
    burst_count,        \* self.burst_count
    returned,           \* <<>> while run() is running, <<code>> once it has returned
    proc,               \* the terminal-bench child: "none", "running", "exited"
    rcs,                \* return codes of the bursts so far, in order
    fs,                 \* runs_dir: run id -> NoDir or a directory with tb.lock and results.json
    mtime_order,        \* the existing run directories by st_mtime, oldest first
    invocations,        \* the commands handed to subprocess.run, in order
    status,             \* the last value returned by get_run_status
    status_kind,        \* how it was obtained: "none", "no_run", "read", "raised"
    status_reads,       \* the files the last get_run_status looked for or opened
    status_io,          \* how its open() calls went: "none", "unused", "ok", "failed"
    status_calls,       \* number of calls of get_run_status
    lock_io,            \* the last _update_lock_concurrency: "none", "absent", "read_error", "open_error", "write_error", "written"
    lock_first,         \* <<tb.lock as the first _update_lock_concurrency found it>>, <<>> before
    lock_writes,        \* number of times the controller opened tb.lock for writing
    load_samples,       \* number of calls of get_load_avg
    sleeps,             \* number of calls of time.sleep
    last_load,          \* the load read by the last adjust_concurrency
    old_concurrent,     \* current_concurrent before the last adjust_concurrency
    changed,            \* the value returned by the last adjust_concurrency
    timeout_tasks,      \* task_timeouts: the task_ids handed to get_max_timeout_for_tasks
    timeout_result,     \* <<>> before the call, <<the timeout it returned>> after
    agent,              \* cmux_agent: os.environ and the fields of a CmuxAgent
    agent_env           \* what evaluating its _env gave: not yet, an environment, or ValueError

vars == <<pc, load_threshold, max_concurrent, current_concurrent, run_id, burst_count,
          returned, proc, rcs, fs, mtime_order, invocations, status, status_kind,
          status_reads, status_io, status_calls, lock_io, lock_first, lock_writes, load_samples, sleeps, last_load, old_concurrent, changed,
          timeout_tasks, timeout_result, agent, agent_env>>

-----------------------------------------------------------------------------
(* Bounds of the model *)

MaxConcurrentBound == 3   \* max_concurrent is drawn from 0..MaxConcurrentBound
MaxLoad == 2              \* load samples are drawn from 0..MaxLoad
MaxBursts == 3            \* run() is followed for at most this many bursts
MaxTrials == 2            \* at most this many entries in a results.json
MaxExit == 1              \* the child exits with a code in 0..MaxExit, or with INTERRUPT_EXIT

(* Program constants *)

INTERRUPT_EXIT == 130     \* return 130
DEFAULT_LOAD_THRESHOLD == 1   \* --load-threshold default=1.0
INITIAL_CONCURRENT == 1   \* self.current_concurrent = 1

NoRun == "None"
TB_ARGS == <<"--dataset", "test">>
RUNS_DIR == "runs"

RunIds == {"run_old", "run_new"}
NewRun == "run_new"
OldRun == "run_old"
TaskIds == {"t1", "t2"}

Min(a, b) == IF a < b THEN a ELSE b
Max(a, b) == IF a > b THEN a ELSE b

-----------------------------------------------------------------------------
(* Files and JSON documents.  A JSON object is a function from its keys;    *)
(* a file is absent, unparseable, or holds a document in some formatting.   *)

NoFile == [kind |-> "absent"]
CorruptFile == [kind |-> "corrupt"]
JsonFile(doc, fmt) == [kind |-> "json", data |-> doc, fmt |-> fmt]

NoDir == [kind |-> "nodir"]
RunDir(lock, results) == [kind |-> "dir", lock |-> lock, results |-> results]

\* json.load(f): the document of a parseable file
json_load(file) == file.data

\* json.dump(doc, f, indent=2): the document, re-formatted
json_dump(doc) == JsonFile(doc, "indent2")

\* dict.get(key, default)
DictGet(d, key, default) == IF key \in DOMAIN d THEN d[key] ELSE default

\* d[key] = value on a dict
DictSet(d, key, value) ==
    [k \in (DOMAIN d) \cup {key} |-> IF k = key THEN value ELSE d[k]]

EmptyDict == [k \in {} |-> 0]

\* runs_dir / run_id / "tb.lock" and runs_dir / run_id / "results.json" in file system fsys
LockPath(fsys, rid) == IF fsys[rid].kind = "dir" THEN fsys[rid].lock ELSE NoFile
ResultsPath(fsys, rid) == IF fsys[rid].kind = "dir" THEN fsys[rid].results ELSE NoFile

Exists(file) == file.kind # "absent"

-----------------------------------------------------------------------------
(* get_run_status *)

ZeroStatus == [total |-> 0, completed |-> 0, incomplete |-> 0]

\* a total that counts one task more than the list declares
TotalTasks_OneMore(lock_data) ==
    Len(DictGet(DictGet(lock_data, "dataset", EmptyDict), "task_ids", <<>>)) + 1

\* the length of the dataset object taken for the length of its task list
TotalTasks_DatasetKeys(lock_data) ==
    Cardinality(DOMAIN DictGet(lock_data, "dataset", EmptyDict))

\* len(lock_data.get("dataset", {}).get("task_ids", []))
TotalTasks(lock_data) ==
    Len(DictGet(DictGet(lock_data, "dataset", EmptyDict), "task_ids", <<>>))

\* results_data.get("trials", [])
Trials(results_data) == DictGet(results_data, "trials", <<>>)

\* the result entries counted without set()
Completed_NoDedup(results_data) == Len(Trials(results_data))

\* len(set(r["task_id"] for r in trials))
Completed(results_data) ==
    LET trials == Trials(results_data)
    IN Cardinality({trials[i].task_id : i \in 1..Len(trials)})

\* r["task_id"] raises KeyError for an entry without the key
HasKeyError(results_data) ==
    LET trials == Trials(results_data)
    IN \E i \in 1..Len(trials) : "task_id" \notin DOMAIN trials[i]

\* Whether the try block of get_run_status raises: an existing file cannot be
\* opened (io_fail), does not parse, or a result entry has no task_id.
StatusRaises(fsys, rid, io_fail) ==
    LET lock == LockPath(fsys, rid)
        results == ResultsPath(fsys, rid)
    IN \/ Exists(lock) /\ (io_fail \/ lock.kind = "corrupt")
       \/ Exists(results) /\ (io_fail \/ results.kind = "corrupt")
       \/ results.kind = "json" /\ HasKeyError(json_load(results))

\* the difference returned without max(0, ...)
StatusRead_NoClamp(fsys, rid) ==
    LET lock == LockPath(fsys, rid)
        results == ResultsPath(fsys, rid)
        total_tasks == IF Exists(lock) THEN TotalTasks(json_load(lock)) ELSE 0
        completed == IF Exists(results) THEN Completed(json_load(results)) ELSE 0
    IN [total |-> total_tasks, completed |-> completed,
        incomplete |-> total_tasks - completed]

\* the try block of get_run_status when nothing in it raises
StatusRead(fsys, rid) ==
    LET lock == LockPath(fsys, rid)
        results == ResultsPath(fsys, rid)
        total_tasks == IF Exists(lock) THEN TotalTasks(json_load(lock)) ELSE 0
        completed == IF Exists(results) THEN Completed(json_load(results)) ELSE 0
    IN [total |-> total_tasks, completed |-> completed,
        incomplete |-> Max(0, total_tasks - completed)]

\* How the open() calls of get_run_status go: none is made ("unused") when no
\* run is known or neither file exists; otherwise they succeed or fail.
StatusIo(fsys, rid, io_fail) ==
    IF rid = NoRun THEN "unused"
    ELSE IF ~Exists(LockPath(fsys, rid)) /\ ~Exists(ResultsPath(fsys, rid)) THEN "unused"
    ELSE IF io_fail THEN "failed"
    ELSE "ok"

\* an unknown run reported as one task still to do
get_run_status_Unknown(fsys, rid, io_fail) ==
    IF rid = NoRun THEN [total |-> 1, completed |-> 0, incomplete |-> 1]
    ELSE IF StatusRaises(fsys, rid, io_fail) THEN ZeroStatus
    ELSE StatusRead(fsys, rid)

\* a status that adds to the counts of the call before
get_run_status_Accumulate(fsys, rid, io_fail) ==
    IF rid = NoRun THEN ZeroStatus
    ELSE IF StatusRaises(fsys, rid, io_fail) THEN ZeroStatus
    ELSE LET st == StatusRead(fsys, rid)
         IN [total |-> st.total, completed |-> status.completed + st.completed,
             incomplete |-> Max(0, st.total - (status.completed + st.completed))]

\* an except branch that keeps the total it had read before the failure
get_run_status_Partial(fsys, rid, io_fail) ==
    IF rid = NoRun THEN ZeroStatus
    ELSE IF StatusRaises(fsys, rid, io_fail)
         THEN LET lock == LockPath(fsys, rid)
                  total_tasks == IF lock.kind = "json" /\ ~io_fail
                                 THEN TotalTasks(json_load(lock)) ELSE 0
              IN [total |-> total_tasks, completed |-> 0, incomplete |-> total_tasks]
    ELSE StatusRead(fsys, rid)

get_run_status(fsys, rid, io_fail) ==
    IF rid = NoRun THEN ZeroStatus
    ELSE IF StatusRaises(fsys, rid, io_fail) THEN ZeroStatus
    ELSE StatusRead(fsys, rid)

StatusKind(fsys, rid, io_fail) ==
    IF rid = NoRun THEN "no_run"
    ELSE IF StatusRaises(fsys, rid, io_fail) THEN "raised"
    ELSE "read"

\* a status read that goes to the files whether or not a run is known
FilesRead_NoGuard(fsys, rid, io_fail) == {"tb.lock", "results.json"}

\* The paths get_run_status calls exists() or open() on: none before a run is
\* known, and results.json only if reading tb.lock did not raise.
FilesRead(fsys, rid, io_fail) ==
    IF rid = NoRun THEN {}
    ELSE LET lock == LockPath(fsys, rid)
         IN IF Exists(lock) /\ (io_fail \/ lock.kind = "corrupt")
            THEN {"tb.lock"}
            ELSE {"tb.lock", "results.json"}

-----------------------------------------------------------------------------
(* adjust_concurrency *)

\* the doubling without its cap
NextConcurrent_NoCap(cur, load, threshold, max) ==
    IF load < threshold /\ cur < max THEN cur * 2
    ELSE IF load > threshold /\ cur > 1 THEN Max(cur \div 2, 1)
    ELSE cur

\* the halving without its floor and without its guard
NextConcurrent_NoFloor(cur, load, threshold, max) ==
    IF load < threshold /\ cur < max THEN Min(cur * 2, max)
    ELSE IF load > threshold THEN cur \div 2
    ELSE cur

\* a step of one instead of the doubling and the halving
NextConcurrent_Linear(cur, load, threshold, max) ==
    IF load < threshold /\ cur < max THEN Min(cur + 1, max)
    ELSE IF load > threshold /\ cur > 1 THEN Max(cur - 1, 1)
    ELSE cur

\* the comparison with the threshold taken as "at most"
NextConcurrent_AtMost(cur, load, threshold, max) ==
    IF load <= threshold /\ cur < max THEN Min(cur * 2, max)
    ELSE IF load > threshold /\ cur > 1 THEN Max(cur \div 2, 1)
    ELSE cur

NextConcurrent(cur, load, threshold, max) ==
    IF load < threshold /\ cur < max THEN Min(cur * 2, max)
    ELSE IF load > threshold /\ cur > 1 THEN Max(cur \div 2, 1)
    ELSE cur

\* get_load_avg called once for the log line and once for the decision
adjust_concurrency_TwoSamples(load) ==
    /\ last_load' = load
    /\ old_concurrent' = current_concurrent
    /\ current_concurrent' =
           NextConcurrent(current_concurrent, load, load_threshold, max_concurrent)
    /\ changed' = (current_concurrent' # current_concurrent)
    /\ load_samples' = load_samples + 2

\* True returned whenever one of the two branches is taken
adjust_concurrency_ReturnsBranch(load) ==
    /\ last_load' = load
    /\ old_concurrent' = current_concurrent
    /\ current_concurrent' =
           NextConcurrent(current_concurrent, load, load_threshold, max_concurrent)
    /\ changed' = \/ load < load_threshold /\ current_concurrent < max_concurrent
                  \/ load > load_threshold /\ current_concurrent > 1
    /\ load_samples' = load_samples + 1

adjust_concurrency(load) ==
    /\ last_load' = load
    /\ old_concurrent' = current_concurrent
    /\ current_concurrent' =
           NextConcurrent(current_concurrent, load, load_threshold, max_concurrent)
    /\ changed' = (current_concurrent' # current_concurrent)
    /\ load_samples' = load_samples + 1

-----------------------------------------------------------------------------
(* _update_lock_concurrency *)

LockIo == {"ok", "read_error", "open_error", "write_error"}

\* the whole run_config replaced by the one field
SetConcurrency_Replace(lock_data, value) ==
    IF "run_config" \in DOMAIN lock_data
    THEN DictSet(lock_data, "run_config", [n_concurrent_trials |-> value])
    ELSE lock_data

\* a run_config created when the document has none
SetConcurrency_Create(lock_data, value) ==
    IF "run_config" \in DOMAIN lock_data
    THEN DictSet(lock_data, "run_config",
                 DictSet(lock_data["run_config"], "n_concurrent_trials", value))
    ELSE DictSet(lock_data, "run_config", [n_concurrent_trials |-> value])

\* lock_data["run_config"]["n_concurrent_trials"] = value, if "run_config" in lock_data
SetConcurrency(lock_data, value) ==
    IF "run_config" \in DOMAIN lock_data
    THEN DictSet(lock_data, "run_config",
                 DictSet(lock_data["run_config"], "n_concurrent_trials", value))
    ELSE lock_data

\* What the call does, given how its I/O goes: "absent" (early return),
\* "read_error" (open or json.load raises), "open_error" (open(.., "w") raises),
\* "write_error" (json.dump raises after the file was truncated), "written".
LockOutcome(lock, io) ==
    IF ~Exists(lock) THEN "absent"
    ELSE IF io = "read_error" \/ lock.kind = "corrupt" THEN "read_error"
    ELSE IF io = "open_error" THEN "open_error"
    ELSE IF io = "write_error" THEN "write_error"
    ELSE "written"

\* tb.lock after the call
UpdatedLock(lock, value, io) ==
    LET outcome == LockOutcome(lock, io)
    IN IF outcome = "written" THEN json_dump(SetConcurrency(json_load(lock), value))
       ELSE IF outcome = "write_error" THEN CorruptFile
       ELSE lock

SetLock(fsys, rid, lock) ==
    [fsys EXCEPT ![rid] = RunDir(lock, fsys[rid].results)]

\* a tb.lock created when there is none
update_lock_concurrency_Create(rid, value, io) ==
    LET lock == LockPath(fs, rid)
        outcome == LockOutcome(lock, io)
        fresh == json_dump([run_config |-> [n_concurrent_trials |-> value]])
    IN /\ fs' = IF Exists(lock) THEN SetLock(fs, rid, UpdatedLock(lock, value, io))
                ELSE SetLock(fs, rid, fresh)
       /\ lock_io' = IF Exists(lock) THEN outcome ELSE "written"
       /\ lock_first' = IF lock_first = <<>> THEN <<lock>> ELSE lock_first
       /\ lock_writes' = IF outcome \in {"write_error", "written", "absent"}
                          THEN lock_writes + 1 ELSE lock_writes

\* self._update_lock_concurrency() with self.run_id = rid and
\* self.current_concurrent = value, its I/O going as io says
update_lock_concurrency(rid, value, io) ==
    LET lock == LockPath(fs, rid)
        outcome == LockOutcome(lock, io)
    IN /\ fs' = IF Exists(lock) THEN SetLock(fs, rid, UpdatedLock(lock, value, io)) ELSE fs
       /\ lock_io' = outcome
       /\ lock_first' = IF lock_first = <<>> THEN <<lock>> ELSE lock_first
       /\ lock_writes' = IF outcome \in {"write_error", "written"}
                          THEN lock_writes + 1 ELSE lock_writes

-----------------------------------------------------------------------------
(* run_burst: the command, and the capture of run_id *)

\* a resume command that also passes the concurrency
Command_ResumeWithFlag(n, concurrent, rid) ==
    IF n = 1
    THEN [mode |-> "run", n_concurrent |-> concurrent, output_path |-> RUNS_DIR,
          tb_args |-> TB_ARGS]
    ELSE [mode |-> "resume", run_id |-> rid, runs_dir |-> RUNS_DIR,
          n_concurrent |-> concurrent]

\* cmd of run_burst for burst number n
Command(n, concurrent, rid) ==
    IF n = 1
    THEN [mode |-> "run", n_concurrent |-> concurrent, output_path |-> RUNS_DIR,
          tb_args |-> TB_ARGS]
    ELSE [mode |-> "resume", run_id |-> rid, runs_dir |-> RUNS_DIR]

\* the directories not filtered by their tb.lock
RunDirsWithLock_AnyDir(fsys, order) == order

\* [d for d in runs_dir.iterdir() if d.is_dir() and (d / "tb.lock").exists()],
\* sorted by st_mtime
RunDirsWithLock(fsys, order) ==
    SelectSeq(order, LAMBDA d : Exists(LockPath(fsys, d)))

\* a capture that is repeated after every successful burst
CapturedRunId_EveryBurst(n, rc, rid, fsys, order) ==
    LET run_dirs == RunDirsWithLock(fsys, order)
    IN IF rc = 0 /\ run_dirs # <<>>
       THEN run_dirs[Len(run_dirs)]
       ELSE rid

\* self.run_id after the capture step of burst number n with return code rc
CapturedRunId(n, rc, rid, fsys, order) ==
    LET run_dirs == RunDirsWithLock(fsys, order)
    IN IF n = 1 /\ rc = 0 /\ run_dirs # <<>>
       THEN run_dirs[Len(run_dirs)]
       ELSE rid

\* a child that is started and not waited for
ProcessReturned_NoWait == proc \in {"running", "exited"}

\* subprocess.run returns only when the child has exited
ProcessReturned == proc = "exited"

\* result.returncode
ReturnCode == IF Len(rcs) >= burst_count /\ burst_count > 0 THEN rcs[burst_count] ELSE 0

\* a failed burst that is slept on and tried again
AfterBurst_Retry(rc, st) ==
    IF rc = 0 /\ st.incomplete = 0 THEN [pc |-> "COMPLETED", ret |-> <<0>>]
    ELSE [pc |-> "SLEEP", ret |-> <<>>]

\* a status without tasks not taken for completion
AfterBurst_SleepOnZero(rc, st) ==
    IF rc # 0 THEN [pc |-> "FAILED", ret |-> <<rc>>]
    ELSE IF st.incomplete = 0 /\ st.total > 0 THEN [pc |-> "COMPLETED", ret |-> <<0>>]
    ELSE [pc |-> "SLEEP", ret |-> <<>>]

\* a failed burst whose code is kept while the loop goes on
AfterBurst_KeepGoing(rc, st) ==
    IF rc # 0 THEN [pc |-> "SLEEP", ret |-> <<rc>>]
    ELSE IF st.incomplete = 0 THEN [pc |-> "COMPLETED", ret |-> <<0>>]
    ELSE [pc |-> "SLEEP", ret |-> <<>>]

\* run(): what follows a burst that returned rc, with st the status read after it
AfterBurst(rc, st) ==
    IF rc # 0 THEN [pc |-> "FAILED", ret |-> <<rc>>]
    ELSE IF st.incomplete = 0 THEN [pc |-> "COMPLETED", ret |-> <<0>>]
    ELSE [pc |-> "SLEEP", ret |-> <<>>]

\* a lock written only when the run has just been discovered
UpdatesLock_FirstOnly(rid, rc) == rid # NoRun /\ rc = 0 /\ burst_count = 1

\* a lock written whatever the return code
UpdatesLock_AnyCode(rid, rc) == rid # NoRun

\* if self.run_id and result.returncode == 0: self._update_lock_concurrency()
UpdatesLock(rid, rc) == rid # NoRun /\ rc = 0

-----------------------------------------------------------------------------
(* The initial state: a constructed AdaptiveBench, run() not yet entered *)

\* no CmuxAgent constructed, its _env not evaluated
NoAgent == [environ |-> EmptyDict, mode |-> "", thinking_level |-> ""]
NotEvaluated == [kind |-> "none"]

OldLock ==
    JsonFile([dataset |-> [task_ids |-> <<"t1">>],
              run_config |-> [n_concurrent_trials |-> 1, other_field |-> "value"],
              agent_name |-> "cmux"], "tool")

OldResults == JsonFile([trials |-> <<[task_id |-> "t1", is_resolved |-> TRUE]>>], "tool")

\* runs_dir is empty (or missing), or holds one earlier, finished run
InitialDirs == {[r \in RunIds |-> NoDir],
                [r \in RunIds |-> IF r = OldRun THEN RunDir(OldLock, OldResults) ELSE NoDir]}

Init ==
    /\ pc = "NOT_STARTED"
    /\ load_threshold = DEFAULT_LOAD_THRESHOLD
    /\ max_concurrent \in 0..MaxConcurrentBound
    /\ current_concurrent = INITIAL_CONCURRENT
    /\ run_id = NoRun
    /\ burst_count = 0
    /\ returned = <<>>
    /\ proc = "none"
    /\ rcs = <<>>
    /\ fs \in InitialDirs
    /\ mtime_order = IF fs[OldRun].kind = "dir" THEN <<OldRun>> ELSE <<>>
    /\ invocations = <<>>
    /\ status = ZeroStatus
    /\ status_kind = "none"
    /\ status_reads = {}
    /\ status_io = "none"
    /\ status_calls = 0
    /\ lock_io = "none"
    /\ lock_first = <<>>
    /\ lock_writes = 0
    /\ load_samples = 0
    /\ sleeps = 0
    /\ last_load = 0
    /\ old_concurrent = INITIAL_CONCURRENT
    /\ changed = FALSE
    /\ timeout_tasks = <<>>
    /\ timeout_result = <<>>
    /\ agent = NoAgent
    /\ agent_env = NotEvaluated

config == <<load_threshold, max_concurrent>>
other_modules == <<timeout_tasks, timeout_result, agent, agent_env>>
adjust_vars == <<current_concurrent, last_load, old_concurrent, changed, load_samples>>
status_vars == <<status, status_kind, status_reads, status_io, status_calls>>
file_vars == <<fs, mtime_order>>
lock_vars == <<lock_io, lock_first, lock_writes>>

-----------------------------------------------------------------------------
(* The controller *)

\* a burst that is started without being counted
Invoke_NoCount ==
    /\ burst_count' = burst_count
    /\ invocations' = Append(invocations,
                             Command(burst_count + 1, current_concurrent', run_id))
    /\ proc' = "running"
    /\ pc' = "BURST"

\* run_burst up to and including the call of subprocess.run
Invoke ==
    /\ burst_count' = burst_count + 1
    /\ invocations' = Append(invocations,
                             Command(burst_count', current_concurrent', run_id))
    /\ proc' = "running"
    /\ pc' = "BURST"

\* run() is entered: the first burst
FirstBurst ==
    /\ pc = "NOT_STARTED"
    /\ UNCHANGED <<config, other_modules, adjust_vars, run_id, returned, rcs, file_vars,
                   status_vars, lock_vars, sleeps>>
    /\ Invoke

\* subprocess.run has returned: the rest of run_burst (capture of run_id,
\* _update_lock_concurrency), then run() up to time.sleep or its return
FinishBurst ==
    /\ pc = "BURST"
    /\ ProcessReturned
    /\ \E io \in LockIo, io_fail \in BOOLEAN :
         LET rc == ReturnCode
             rid == CapturedRunId(burst_count, rc, run_id, fs, mtime_order)
         IN /\ run_id' = rid
            /\ IF UpdatesLock(rid, rc)
               THEN update_lock_concurrency(rid, current_concurrent, io)
               ELSE UNCHANGED <<fs, lock_vars>>
            /\ LET st == get_run_status(fs', rid, io_fail)
                   after == AfterBurst(rc, st)
               IN /\ status' = IF rc = 0 THEN st ELSE status
                  /\ status_kind' = IF rc = 0 THEN StatusKind(fs', rid, io_fail)
                                     ELSE status_kind
                  /\ status_reads' = IF rc = 0 THEN FilesRead(fs', rid, io_fail)
                                      ELSE status_reads
                  /\ status_io' = IF rc = 0 THEN StatusIo(fs', rid, io_fail)
                                   ELSE status_io
                  /\ status_calls' = IF rc = 0 THEN status_calls + 1 ELSE status_calls
                  /\ pc' = after.pc
                  /\ returned' = after.ret
                  /\ sleeps' = IF after.pc = "SLEEP" THEN sleeps + 1 ELSE sleeps
    /\ proc' = "none"
    /\ UNCHANGED <<config, other_modules, adjust_vars, burst_count, rcs, mtime_order, invocations>>

\* time.sleep has returned: adjust_concurrency, then the next burst
WakeAndResume ==
    /\ pc = "SLEEP"
    /\ burst_count < MaxBursts
    /\ \E load \in 0..MaxLoad : adjust_concurrency(load)
    /\ Invoke
    /\ UNCHANGED <<config, other_modules, run_id, returned, rcs, file_vars, status_vars,
                   lock_vars, sleeps>>

\* an interrupt reported with the generic failure status
Interrupt_Exit1 ==
    /\ \/ pc = "BURST" /\ proc = "running"
       \/ pc = "SLEEP"
    /\ pc' = "INTERRUPTED"
    /\ returned' = <<1>>
    /\ proc' = "none"
    /\ UNCHANGED <<config, other_modules, adjust_vars, run_id, burst_count, rcs, file_vars,
                   invocations, status_vars, lock_vars, sleeps>>

\* KeyboardInterrupt while run() is blocked in subprocess.run or time.sleep
Interrupt ==
    /\ \/ pc = "BURST" /\ proc = "running"
       \/ pc = "SLEEP"
    /\ pc' = "INTERRUPTED"
    /\ returned' = <<INTERRUPT_EXIT>>
    /\ proc' = "none"
    /\ UNCHANGED <<config, other_modules, adjust_vars, run_id, burst_count, rcs, file_vars,
                   invocations, status_vars, lock_vars, sleeps>>

-----------------------------------------------------------------------------
(* terminal-bench, the child process, and the rest of the machine *)

\* the run the child works on: a new one, or the one named by --run-id
ToolRun == IF burst_count = 1 THEN NewRun ELSE invocations[burst_count].run_id

TaskLists == {<<"t1", "t2">>}

\* a tb.lock as terminal-bench writes it for a run started with --n-concurrent n
ToolLockDoc(task_ids, n, with_config) ==
    IF with_config
    THEN [dataset |-> [task_ids |-> task_ids],
          run_config |-> [n_concurrent_trials |-> n, other_field |-> "value"],
          agent_name |-> "cmux"]
    ELSE [dataset |-> [task_ids |-> task_ids], agent_name |-> "cmux"]

ToolLocks(n) ==
    {NoFile, CorruptFile}
    \cup {JsonFile(ToolLockDoc(l, n, c), "tool") : l \in TaskLists, c \in BOOLEAN}

TrialChoices ==
    {[task_id |-> "t1", is_resolved |-> TRUE], [task_id |-> "t2", is_resolved |-> FALSE]}

Touch(order, d) == Append(SelectSeq(order, LAMBDA x : x # d), d)

\* terminal-bench run creates the run directory and its tb.lock
TbCreateRun ==
    /\ proc = "running"
    /\ burst_count = 1
    /\ fs[NewRun].kind = "nodir"
    /\ \E lock \in ToolLocks(invocations[1].n_concurrent) :
         fs' = [fs EXCEPT ![NewRun] = RunDir(lock, NoFile)]
    /\ mtime_order' = Touch(mtime_order, NewRun)
    /\ UNCHANGED <<pc, config, other_modules, adjust_vars, run_id, burst_count, returned, proc, rcs,
                   invocations, status_vars, lock_vars, sleeps>>

\* terminal-bench records the result of one trial in results.json
TbRecordTrial ==
    /\ proc = "running"
    /\ fs[ToolRun].kind = "dir"
    /\ LET results == fs[ToolRun].results
           old == IF results.kind = "json" THEN json_load(results).trials ELSE <<>>
       IN /\ results.kind # "corrupt"
          /\ Len(old) < MaxTrials
          /\ \E e \in TrialChoices :
               fs' = [fs EXCEPT ![ToolRun].results =
                         JsonFile([trials |-> Append(old, e)], "tool")]
          /\ mtime_order' = IF results.kind = "absent"
                             THEN Touch(mtime_order, ToolRun) ELSE mtime_order
    /\ UNCHANGED <<pc, config, other_modules, adjust_vars, run_id, burst_count, returned, proc, rcs,
                   invocations, status_vars, lock_vars, sleeps>>

\* terminal-bench is cut off while it writes results.json
TbPartialWrite ==
    /\ proc = "running"
    /\ fs[ToolRun].kind = "dir"
    /\ fs[ToolRun].results.kind = "json"
    /\ fs' = [fs EXCEPT ![ToolRun].results = CorruptFile]
    /\ UNCHANGED <<pc, config, other_modules, adjust_vars, run_id, burst_count, returned, proc, rcs,
                   mtime_order, invocations, status_vars, lock_vars, sleeps>>

\* the child exits with code rc
TbExit ==
    /\ proc = "running"
    /\ \E rc \in (0..MaxExit) \cup {INTERRUPT_EXIT} : rcs' = Append(rcs, rc)
    /\ proc' = "exited"
    /\ UNCHANGED <<pc, config, other_modules, adjust_vars, run_id, burst_count, returned, file_vars,
                   invocations, status_vars, lock_vars, sleeps>>

\* another process modifies an older run directory while a burst runs
OtherRunTouched ==
    /\ proc = "running"
    /\ fs[OldRun].kind = "dir"
    /\ mtime_order # <<>> /\ mtime_order[Len(mtime_order)] # OldRun
    /\ mtime_order' = Touch(mtime_order, OldRun)
    /\ UNCHANGED <<pc, config, other_modules, adjust_vars, run_id, burst_count, returned, proc, rcs,
                   fs, invocations, status_vars, lock_vars, sleeps>>

Next ==
    \/ FirstBurst
    \/ FinishBurst
    \/ WakeAndResume
    \/ Interrupt
    \/ TbCreateRun
    \/ TbRecordTrial
    \/ TbPartialWrite
    \/ TbExit
    \/ OtherRunTouched

Spec == Init /\ [][Next]_vars

\* run() is sequential and blocks only in subprocess.run and time.sleep: the
\* sleep returns, and the child exits (or is interrupted)
SpecLive ==
    /\ Init /\ [][Next]_vars
    /\ WF_vars(FirstBurst)
    /\ WF_vars(FinishBurst)
    /\ WF_vars(WakeAndResume)
    /\ WF_vars(TbExit)

-----------------------------------------------------------------------------
(* adjust_concurrency on its own: any controller state, any load *)

InitAdjust ==
    /\ pc = "ADJUST"
    /\ load_threshold \in 0..MaxLoad
    /\ max_concurrent \in 0..MaxConcurrentBound
    /\ current_concurrent \in (0 - 1)..(2 * MaxConcurrentBound + 2)
    /\ old_concurrent = current_concurrent
    /\ run_id = NoRun
    /\ burst_count = 0
    /\ returned = <<>>
    /\ proc = "none"
    /\ rcs = <<>>
    /\ fs = [r \in RunIds |-> NoDir]
    /\ mtime_order = <<>>
    /\ invocations = <<>>
    /\ status = ZeroStatus
    /\ status_kind = "none"
    /\ status_reads = {}
    /\ status_io = "none"
    /\ status_calls = 0
    /\ lock_io = "none"
    /\ lock_first = <<>>
    /\ lock_writes = 0
    /\ load_samples = 0
    /\ sleeps = 0
    /\ last_load = 0
    /\ changed = FALSE
    /\ timeout_tasks = <<>>
    /\ timeout_result = <<>>
    /\ agent = NoAgent
    /\ agent_env = NotEvaluated

AdjustCall ==
    /\ pc = "ADJUST"
    /\ load_samples < MaxBursts
    /\ \E load \in 0..MaxLoad : adjust_concurrency(load)
    /\ UNCHANGED <<pc, config, other_modules, run_id, burst_count, returned, proc, rcs, file_vars,
                   invocations, status_vars, lock_vars, sleeps>>

SpecAdjust == InitAdjust /\ [][AdjustCall]_vars

-----------------------------------------------------------------------------
(* adjust_concurrency over the intervals of one run whose load samples all   *)
(* lie on one side of the threshold: pc names the side                       *)

\* the values current_concurrent takes in some run: from 1, by the rule
RECURSIVE ReachableConcurrency(_, _)
ReachableConcurrency(seen, max) ==
    LET more == seen \cup {NextConcurrent(c, l, 1, max) : c \in seen, l \in {0, 2}}
    IN  IF more = seen THEN seen ELSE ReachableConcurrency(more, max)

InitConverge ==
    /\ pc \in {"LOW_LOAD", "HIGH_LOAD"}
    /\ load_threshold \in 0..MaxLoad
    /\ max_concurrent \in 0..(2 * MaxConcurrentBound + 2)
    /\ current_concurrent \in ReachableConcurrency({INITIAL_CONCURRENT}, max_concurrent)
    /\ old_concurrent = current_concurrent
    /\ run_id = NoRun
    /\ burst_count = 0
    /\ returned = <<>>
    /\ proc = "none"
    /\ rcs = <<>>
    /\ fs = [r \in RunIds |-> NoDir]
    /\ mtime_order = <<>>
    /\ invocations = <<>>
    /\ status = ZeroStatus
    /\ status_kind = "none"
    /\ status_reads = {}
    /\ status_io = "none"
    /\ status_calls = 0
    /\ lock_io = "none"
    /\ lock_first = <<>>
    /\ lock_writes = 0
    /\ load_samples = 0
    /\ sleeps = 0
    /\ last_load = 0
    /\ changed = FALSE
    /\ timeout_tasks = <<>>
    /\ timeout_result = <<>>
    /\ agent = NoAgent
    /\ agent_env = NotEvaluated

ConvergeCall ==
    /\ pc \in {"LOW_LOAD", "HIGH_LOAD"}
    /\ load_samples < MaxBursts + 1
    /\ \E load \in 0..MaxLoad :
           /\ pc = "LOW_LOAD" => load < load_threshold
           /\ pc = "HIGH_LOAD" => load > load_threshold
           /\ adjust_concurrency(load)
    /\ UNCHANGED <<pc, config, other_modules, run_id, burst_count, returned, proc, rcs, file_vars,
                   invocations, status_vars, lock_vars, sleeps>>

SpecConverge == InitConverge /\ [][ConvergeCall]_vars

-----------------------------------------------------------------------------
(* _update_lock_concurrency on its own, as run_burst calls it: any tb.lock,  *)
(* any value of current_concurrent, any sequence of calls                    *)

HarnessLockDocs ==
    {[dataset |-> [task_ids |-> <<"t1", "t2">>],
      run_config |-> [n_concurrent_trials |-> 1, other_field |-> "value"],
      agent_name |-> "cmux", model_name |-> "m", run_id |-> "run_new"],
     [dataset |-> [task_ids |-> <<"t1">>],
      run_config |-> [other_field |-> "value"], agent_name |-> "cmux"],
     [dataset |-> [task_ids |-> <<"t1">>], agent_name |-> "cmux"]}

HarnessLocks ==
    {NoFile, CorruptFile} \cup {JsonFile(d, "tool") : d \in HarnessLockDocs}

InitLock ==
    /\ pc = "LOCK"
    /\ load_threshold = DEFAULT_LOAD_THRESHOLD
    /\ max_concurrent = MaxConcurrentBound
    /\ current_concurrent \in 1..MaxConcurrentBound
    /\ old_concurrent = current_concurrent
    /\ run_id \in {NoRun, NewRun}
    /\ burst_count = 0
    /\ returned = <<>>
    /\ proc = "none"
    /\ rcs = <<>>
    /\ \E lock \in HarnessLocks :
         fs = [r \in RunIds |-> IF r = NewRun THEN RunDir(lock, NoFile) ELSE NoDir]
    /\ mtime_order = <<NewRun>>
    /\ invocations = <<>>
    /\ status = ZeroStatus
    /\ status_kind = "none"
    /\ status_reads = {}
    /\ status_io = "none"
    /\ status_calls = 0
    /\ lock_io = "none"
    /\ lock_first = <<>>
    /\ lock_writes = 0
    /\ load_samples = 0
    /\ sleeps = 0
    /\ last_load = 0
    /\ changed = FALSE
    /\ timeout_tasks = <<>>
    /\ timeout_result = <<>>
    /\ agent = NoAgent
    /\ agent_env = NotEvaluated

\* the controller's concurrency takes some value, then the call site of run_burst
LockCall ==
    /\ pc = "LOCK"
    /\ lock_writes < MaxBursts
    /\ \E value \in 1..MaxConcurrentBound, io \in LockIo :
         /\ current_concurrent' = value
         /\ IF UpdatesLock(run_id, 0)
            THEN update_lock_concurrency(run_id, value, io)
            ELSE UNCHANGED <<fs, lock_vars>>
    /\ UNCHANGED <<pc, config, other_modules, run_id, burst_count, returned, proc, rcs, mtime_order,
                   invocations, status_vars, load_samples, sleeps, last_load,
                   old_concurrent, changed>>

SpecLock == InitLock /\ [][LockCall]_vars

-----------------------------------------------------------------------------
(* get_run_status on its own: any tb.lock, any results.json, run_id known   *)
(* or not, any number of calls                                              *)

StatusTaskLists == {<<>>, <<"t1">>, <<"t1", "t2">>, <<"t1", "t1">>}

StatusLockDocs ==
    {[dataset |-> [task_ids |-> l], agent_name |-> "cmux"] : l \in StatusTaskLists}
    \cup {[dataset |-> [name |-> "terminal-bench-core"], agent_name |-> "cmux"],
          [agent_name |-> "cmux"]}

StatusLocks == {NoFile, CorruptFile} \cup {JsonFile(d, "tool") : d \in StatusLockDocs}

\* result entries: passed and failed, a task the lock does not declare, and
\* an entry without a task_id
StatusTrialChoices ==
    {[task_id |-> "t1", is_resolved |-> TRUE], [task_id |-> "t1", is_resolved |-> FALSE],
     [task_id |-> "t2", is_resolved |-> TRUE], [task_id |-> "t3", is_resolved |-> FALSE],
     [is_resolved |-> TRUE]}

StatusTrialLists == UNION {[1..n -> StatusTrialChoices] : n \in 0..MaxTrials}

StatusResultsDocs ==
    {[trials |-> t] : t \in StatusTrialLists} \cup {[n_resolved |-> 0]}

StatusResults ==
    {NoFile, CorruptFile} \cup {JsonFile(d, "tool") : d \in StatusResultsDocs}

InitStatus ==
    /\ pc = "STATUS"
    /\ load_threshold = DEFAULT_LOAD_THRESHOLD
    /\ max_concurrent = MaxConcurrentBound
    /\ current_concurrent = INITIAL_CONCURRENT
    /\ old_concurrent = current_concurrent
    /\ run_id \in {NoRun, NewRun}
    /\ burst_count = 1
    /\ returned = <<>>
    /\ proc = "none"
    /\ rcs = <<0>>
    /\ \E lock \in StatusLocks, results \in StatusResults :
         fs = [r \in RunIds |-> IF r = NewRun THEN RunDir(lock, results) ELSE NoDir]
    /\ mtime_order = <<NewRun>>
    /\ invocations = <<Command(1, INITIAL_CONCURRENT, NoRun)>>
    /\ status = ZeroStatus
    /\ status_kind = "none"
    /\ status_reads = {}
    /\ status_io = "none"
    /\ status_calls = 0
    /\ lock_io = "none"
    /\ lock_first = <<>>
    /\ lock_writes = 0
    /\ load_samples = 0
    /\ sleeps = 0
    /\ last_load = 0
    /\ changed = FALSE
    /\ timeout_tasks = <<>>
    /\ timeout_result = <<>>
    /\ agent = NoAgent
    /\ agent_env = NotEvaluated

\* status = self.get_run_status(), the files opening or failing to open
StatusCall ==
    /\ pc = "STATUS"
    /\ status_calls < MaxBursts
    /\ \E io_fail \in BOOLEAN :
         /\ status' = get_run_status(fs, run_id, io_fail)
         /\ status_kind' = StatusKind(fs, run_id, io_fail)
         /\ status_reads' = FilesRead(fs, run_id, io_fail)
         /\ status_io' = StatusIo(fs, run_id, io_fail)
         /\ status_calls' = status_calls + 1
    /\ UNCHANGED <<pc, config, other_modules, adjust_vars, run_id, burst_count, returned, proc, rcs,
                   file_vars, invocations, lock_vars, sleeps>>

SpecStatus == InitStatus /\ [][StatusCall]_vars

-----------------------------------------------------------------------------
(* task_timeouts.py *)

FAST_TIMEOUT == 300
NORMAL_TIMEOUT == 900
SLOW_TIMEOUT == 1800
VERY_SLOW_TIMEOUT == 3600

TASK_TIMEOUTS ==
    ("build-linux-kernel-qemu" :> VERY_SLOW_TIMEOUT) @@
    ("build-initramfs-qemu" :> VERY_SLOW_TIMEOUT) @@
    ("build-tcc-qemu" :> SLOW_TIMEOUT) @@
    ("count-dataset-tokens" :> SLOW_TIMEOUT) @@
    ("train-fasttext" :> SLOW_TIMEOUT) @@
    ("cartpole-rl-training" :> SLOW_TIMEOUT) @@
    ("hf-model-inference" :> SLOW_TIMEOUT) @@
    ("eval-mteb" :> SLOW_TIMEOUT) @@
    ("eval-mteb.hard" :> SLOW_TIMEOUT) @@
    ("reshard-c4-data" :> SLOW_TIMEOUT) @@
    ("qemu-startup" :> SLOW_TIMEOUT) @@
    ("qemu-alpine-ssh" :> SLOW_TIMEOUT) @@
    ("run-pdp11-code" :> SLOW_TIMEOUT) @@
    ("blind-maze-explorer-algorithm" :> SLOW_TIMEOUT) @@
    ("blind-maze-explorer-algorithm.easy" :> SLOW_TIMEOUT) @@
    ("blind-maze-explorer-algorithm.hard" :> SLOW_TIMEOUT) @@
    ("path-tracing" :> SLOW_TIMEOUT) @@
    ("path-tracing-reverse" :> SLOW_TIMEOUT) @@
    ("crack-7z-hash" :> SLOW_TIMEOUT) @@
    ("crack-7z-hash.hard" :> SLOW_TIMEOUT) @@
    ("password-recovery" :> SLOW_TIMEOUT) @@
    ("security-vulhub-minio" :> SLOW_TIMEOUT) @@
    ("git-workflow-hack" :> SLOW_TIMEOUT) @@
    ("pytorch-model-cli" :> SLOW_TIMEOUT) @@
    ("swe-bench-astropy-1" :> SLOW_TIMEOUT) @@
    ("swe-bench-astropy-2" :> SLOW_TIMEOUT) @@
    ("swe-bench-fsspec" :> SLOW_TIMEOUT) @@
    ("swe-bench-langcodes" :> SLOW_TIMEOUT) @@
    ("gpt2-codegolf" :> SLOW_TIMEOUT) @@
    ("polyglot-c-py" :> SLOW_TIMEOUT) @@
    ("polyglot-rust-c" :> SLOW_TIMEOUT) @@
    ("write-compressor" :> SLOW_TIMEOUT) @@
    ("cron-broken-network" :> SLOW_TIMEOUT) @@
    ("oom" :> SLOW_TIMEOUT) @@
    ("fibonacci-server" :> SLOW_TIMEOUT) @@
    ("incompatible-python-fasttext.base_with_hint" :> SLOW_TIMEOUT) @@
    ("extract-safely" :> SLOW_TIMEOUT) @@
    ("hello-world" :> FAST_TIMEOUT) @@
    ("fix-permissions" :> FAST_TIMEOUT) @@
    ("openssl-selfsigned-cert" :> FAST_TIMEOUT) @@
    ("simple-web-scraper" :> FAST_TIMEOUT) @@
    ("simple-sheets-put" :> FAST_TIMEOUT) @@
    ("csv-to-parquet" :> FAST_TIMEOUT) @@
    ("crack-7z-hash.easy" :> FAST_TIMEOUT)

\* TASK_TIMEOUTS.get(task_id, NORMAL_TIMEOUT)
get_timeout_for_task(task_id) == DictGet(TASK_TIMEOUTS, task_id, NORMAL_TIMEOUT)

\* max(get_timeout_for_task(task_id) for task_id in task_ids), task_ids not empty
RECURSIVE MaxTimeout(_)
MaxTimeout(ids) ==
    IF Len(ids) = 1 THEN get_timeout_for_task(ids[1])
    ELSE Max(get_timeout_for_task(ids[1]), MaxTimeout(Tail(ids)))

\* the timeout of the first task instead of the largest
get_max_timeout_for_tasks_First(ids) ==
    IF ids = <<>> THEN VERY_SLOW_TIMEOUT ELSE get_timeout_for_task(ids[1])

get_max_timeout_for_tasks(ids) ==
    IF ids = <<>> THEN VERY_SLOW_TIMEOUT ELSE MaxTimeout(ids)

MaxTasks == 3             \* get_max_timeout_for_tasks is given at most this many task ids

\* a fast, a slow and a very slow task of the table, and a task not in it
TimeoutTaskIds ==
    {"hello-world", "count-dataset-tokens", "build-linux-kernel-qemu", "unknown-task"}

controller_vars == <<pc, config, adjust_vars, run_id, burst_count, returned, proc, rcs,
                     file_vars, invocations, status_vars, lock_vars, sleeps>>

\* a controller that is not running, for the specifications of the other modules
IdleController ==
    /\ load_threshold = DEFAULT_LOAD_THRESHOLD
    /\ max_concurrent = MaxConcurrentBound
    /\ current_concurrent = INITIAL_CONCURRENT
    /\ old_concurrent = INITIAL_CONCURRENT
    /\ run_id = NoRun
    /\ burst_count = 0
    /\ returned = <<>>
    /\ proc = "none"
    /\ rcs = <<>>
    /\ fs = [r \in RunIds |-> NoDir]
    /\ mtime_order = <<>>
    /\ invocations = <<>>
    /\ status = ZeroStatus
    /\ status_kind = "none"
    /\ status_reads = {}
    /\ status_io = "none"
    /\ status_calls = 0
    /\ lock_io = "none"
    /\ lock_first = <<>>
    /\ lock_writes = 0
    /\ load_samples = 0
    /\ sleeps = 0
    /\ last_load = 0
    /\ changed = FALSE

InitTimeouts ==
    /\ pc = "TIMEOUTS"
    /\ IdleController
    /\ timeout_tasks \in UNION {[1..n -> TimeoutTaskIds] : n \in 0..MaxTasks}
    /\ timeout_result = <<>>
    /\ agent = NoAgent
    /\ agent_env = NotEvaluated

\* get_max_timeout_for_tasks(task_ids)
TimeoutCall ==
    /\ pc = "TIMEOUTS"
    /\ timeout_result = <<>>
    /\ timeout_result' = <<get_max_timeout_for_tasks(timeout_tasks)>>
    /\ UNCHANGED <<controller_vars, timeout_tasks, agent, agent_env>>

SpecTimeouts == InitTimeouts /\ [][TimeoutCall]_vars

-----------------------------------------------------------------------------
(* cmux_agent.py: CmuxAgent._env.  Strings are drawn from a small set, and   *)
(* the string operations are given by their values on that set.              *)

\* keys
ENV_KEYS ==
    {"ANTHROPIC_API_KEY", "ANTHROPIC_BASE_URL", "OPENAI_API_KEY",
     "OPENAI_BASE_URL", "OPENAI_API_BASE", "OPENAI_ORG_ID",
     "AZURE_OPENAI_API_KEY", "AZURE_OPENAI_ENDPOINT", "AZURE_OPENAI_DEPLOYMENT",
     "AZURE_OPENAI_API_VERSION", "MISTRAL_API_KEY", "GOOGLE_API_KEY",
     "OPENROUTER_API_KEY", "CMUX_AGENT_GIT_URL", "CMUX_BUN_INSTALL_URL",
     "CMUX_PROJECT_PATH", "CMUX_PROJECT_CANDIDATES", "CMUX_TRUNK", "CMUX_MODEL",
     "CMUX_TIMEOUT_MS", "CMUX_THINKING_LEVEL", "CMUX_CONFIG_ROOT",
     "CMUX_APP_ROOT", "CMUX_WORKSPACE_ID"}

DEFAULT_TRUNK == "main"
DEFAULT_MODEL == "anthropic/claude-sonnet-4-5"

\* env.setdefault(key, value)
SetDefault(d, key, value) == IF key \in DOMAIN d THEN d ELSE DictSet(d, key, value)

\* value.strip().lower()
StripLower(s) == IF s = " High " THEN "high" ELSE s

\* "/" in s, ":" in s
HasSlash(s) == s \in {"anthropic/claude-sonnet-4-5", "openai/gpt-5"}
HasColon(s) == s \in {"anthropic:claude-sonnet-4-5", "openai:gpt-5"}

\* provider, model_name = s.split("/", 1); f"{provider}:{model_name}"
SlashToColon(s) ==
    IF s = "anthropic/claude-sonnet-4-5" THEN "anthropic:claude-sonnet-4-5"
    ELSE IF s = "openai/gpt-5" THEN "openai:gpt-5"
    ELSE s

ValueError(msg) == [kind |-> "ValueError", msg |-> msg]

\* the property _env of agent a: the environment it returns, or the ValueError it raises
CmuxAgent_env(a) ==
    LET copied == [k \in {k \in ENV_KEYS \cap DOMAIN a.environ : a.environ[k] # ""}
                      |-> a.environ[k]]
        d1 == SetDefault(copied, "CMUX_TRUNK", DEFAULT_TRUNK)
        d2 == SetDefault(d1, "CMUX_MODEL", DEFAULT_MODEL)
        d3 == SetDefault(d2, "CMUX_CONFIG_ROOT", "/root/.cmux")
        d4 == SetDefault(d3, "CMUX_APP_ROOT", "/opt/cmux-app")
        d5 == SetDefault(d4, "CMUX_WORKSPACE_ID", "cmux-bench")
        d6 == SetDefault(d5, "CMUX_THINKING_LEVEL", "high")
        d7 == SetDefault(d6, "CMUX_MODE", "exec")
        model_value == d7["CMUX_MODEL"]
        d8 == IF HasSlash(model_value) /\ ~HasColon(model_value)
              THEN DictSet(d7, "CMUX_MODEL", SlashToColon(model_value))
              ELSE d7
        thinking_value == IF a.thinking_level # "" THEN a.thinking_level
                          ELSE d8["CMUX_THINKING_LEVEL"]
        normalized == StripLower(thinking_value)
        d9 == DictSet(d8, "CMUX_THINKING_LEVEL", normalized)
        mode_value == IF a.mode # "" THEN a.mode ELSE d9["CMUX_MODE"]
        normalized_mode == StripLower(mode_value)
    IN IF normalized \notin {"off", "low", "medium", "high"}
       THEN ValueError("CMUX_THINKING_LEVEL must be one of off, low, medium, high")
       ELSE IF normalized_mode \in {"exec", "execute"}
       THEN [kind |-> "env", env |-> DictSet(d9, "CMUX_MODE", "exec")]
       ELSE IF normalized_mode = "plan"
       THEN [kind |-> "env", env |-> DictSet(d9, "CMUX_MODE", "plan")]
       ELSE ValueError("CMUX_MODE must be one of plan, exec, or execute")

\* os.environ: each variable unset, or set to one of a few values
Unset == "<unset>"
EnvironChoices ==
    [CMUX_TIMEOUT_MS : {Unset, "", "5000", "not-a-number"},
     CMUX_THINKING_LEVEL : {Unset, " High ", "max"},
     CMUX_MODEL : {Unset, "openai/gpt-5"},
     CMUX_MODE : {Unset, "plan"}]

Environ(choice) == [k \in {k \in DOMAIN choice : choice[k] # Unset} |-> choice[k]]

\* CmuxAgent(mode=..., thinking_level=...), the arguments lower-cased by __init__
Agents ==
    {[environ |-> Environ(c), mode |-> md, thinking_level |-> tl] :
        c \in EnvironChoices, md \in {"", "plan", "execute", "bogus"}, tl \in {"", "low"}}

InitAgent ==
    /\ pc = "AGENT"
    /\ IdleController
    /\ timeout_tasks = <<>>
    /\ timeout_result = <<>>
    /\ agent \in Agents
    /\ agent_env = NotEvaluated

\* _ = agent._env
EnvCall ==
    /\ pc = "AGENT"
    /\ agent_env = NotEvaluated
    /\ agent_env' = CmuxAgent_env(agent)
    /\ UNCHANGED <<controller_vars, timeout_tasks, timeout_result, agent>>

SpecAgent == InitAgent /\ [][EnvCall]_vars

-----------------------------------------------------------------------------
(* Properties *)

\* the task identifiers a lock document declares, those a results document names
DeclaredIds(lock_data) ==
    LET ids == DictGet(DictGet(lock_data, "dataset", EmptyDict), "task_ids", <<>>)
    IN {ids[i] : i \in 1..Len(ids)}
RecordedIds(results) ==
    IF results.kind = "json" /\ ~HasKeyError(json_load(results))
    THEN LET trials == Trials(json_load(results))
         IN {trials[i].task_id : i \in 1..Len(trials)}
    ELSE {}

\* a resume burst has just been invoked or is in flight
ResumeInFlight == pc = "BURST" /\ proc = "running" /\ burst_count >= 2

\* C1: whenever a resume burst (burst number >= 2) is invoked, and tb.lock
\* exists with a run_config and the last lock mutation met no read or write
\* failure, run_config.n_concurrent_trials equals current_concurrent.
C1_LockCurrentAtResume ==
    (/\ ResumeInFlight
     /\ LockPath(fs, run_id).kind = "json"
     /\ "run_config" \in DOMAIN json_load(LockPath(fs, run_id))
     /\ lock_io = "written")
    => json_load(LockPath(fs, run_id)).run_config.n_concurrent_trials = current_concurrent

\* C2: whenever run() has returned 0, a run has been identified and every
\* task identifier declared in its tb.lock appears in its results.json.
C2_ZeroOnlyWhenComplete ==
    pc = "COMPLETED" =>
        /\ run_id # NoRun
        /\ LockPath(fs, run_id).kind = "json"
        /\ DeclaredIds(json_load(LockPath(fs, run_id)))
               \subseteq RecordedIds(ResultsPath(fs, run_id))

\* C3: a status read that raised and degraded to the zero status never ends
\* the loop: run() does not return 0 after it.
C3_DegradedStatusContinues ==
    ~(pc = "COMPLETED" /\ status_kind = "raised")

\* C4 as stated: in every reachable state, for any configured max_concurrent,
\* 1 <= current_concurrent <= max_concurrent.
C4_InRangeAnyMax ==
    1 <= current_concurrent /\ current_concurrent <= max_concurrent

\* C4 amended: in every reachable state of a controller configured with
\* max_concurrent >= 1, 1 <= current_concurrent <= max_concurrent.
C4_InRange ==
    max_concurrent >= 1 =>
        (1 <= current_concurrent /\ current_concurrent <= max_concurrent)

\* C4 witness: two adjustments have run and the concurrency sits at a cap of 3,
\* which doubling from 2 would overshoot
C4_Witness ==
    /\ load_samples = 2
    /\ max_concurrent = 3
    /\ old_concurrent = 2
    /\ current_concurrent = 3

\* C5: a burst that exits non-zero is the last burst, and run() returns
\* exactly its exit code: no later burst, no retry.
C5_FailureEndsRun ==
    \A i \in 1..Len(rcs) :
        rcs[i] # 0 =>
            /\ i = Len(rcs)
            /\ burst_count = i
            /\ \/ pc = "BURST" /\ proc = "exited"
               \/ pc = "FAILED" /\ returned = <<rcs[i]>>

\* C5 witness: a resumed burst has failed and run() has returned its code
C5_Witness ==
    /\ pc = "FAILED"
    /\ burst_count = 2
    /\ rcs = <<0, INTERRUPT_EXIT>>
    /\ returned = <<INTERRUPT_EXIT>>

\* the value the three-case rule gives
RuleValue(cur, load, threshold, max) ==
    IF load < threshold THEN Min(2 * cur, max)
    ELSE IF load > threshold THEN Max(cur \div 2, 1)
    ELSE cur

\* C6: for current in [1, max_concurrent] and any load, one adjust_concurrency
\* sets current_concurrent to min(2*current, max) below the threshold, to
\* max(current div 2, 1) above it, and leaves it unchanged at the threshold.
C6_AdjustRule ==
    (load_samples > 0 /\ old_concurrent \in 1..max_concurrent) =>
        current_concurrent =
            RuleValue(old_concurrent, last_load, load_threshold, max_concurrent)

\* C6 witness: a doubling that the cap cut short
C6_Witness ==
    /\ load_samples > 0
    /\ old_concurrent \in 1..max_concurrent
    /\ last_load < load_threshold
    /\ 2 * old_concurrent > max_concurrent
    /\ old_concurrent < max_concurrent
    /\ current_concurrent = max_concurrent

\* C7 as stated: the value adjust_concurrency produces is within
\* [1, max_concurrent] for every input value of current_concurrent.
C7_InRangeAnyInput ==
    load_samples > 0 =>
        (1 <= current_concurrent /\ current_concurrent <= max_concurrent)

\* C7 amended: the value adjust_concurrency produces is within
\* [1, max_concurrent] for every input value in [1, max_concurrent].
C7_InRangeFromInRange ==
    (load_samples > 0 /\ old_concurrent \in 1..max_concurrent) =>
        (1 <= current_concurrent /\ current_concurrent <= max_concurrent)

\* C7 witness: a load above the threshold met at the floor
C7_Witness ==
    /\ load_samples > 0
    /\ max_concurrent > 1
    /\ old_concurrent = 1
    /\ last_load > load_threshold
    /\ current_concurrent = 1

\* C8: while the child is running the controller does nothing: it starts
\* no burst, samples no load and does not write tb.lock.
C8_NothingDuringBurst ==
    [][proc = "running" =>
          /\ lock_writes' = lock_writes
          /\ load_samples' = load_samples
          /\ burst_count' = burst_count
          /\ invocations' = invocations
          /\ \A r \in RunIds : LockPath(fs', r) = LockPath(fs, r) \/ fs[r].kind = "nodir"]_vars

\* C8 witness: a resumed burst is in flight and terminal-bench has recorded a
\* trial, after a lock write and a load sample in the window before it
C8_Witness ==
    /\ ResumeInFlight
    /\ lock_writes = 1
    /\ load_samples = 1
    /\ ResultsPath(fs, run_id).kind = "json"

\* C9: the controller writes tb.lock between two bursts only after the
\* adjustment of that interval has run and has changed the concurrency.
C9_WriteOnlyOnChange ==
    [][lock_writes' # lock_writes => (load_samples = burst_count /\ changed)]_vars

\* the lock document before the first mutation and the one now
LockBefore == json_load(lock_first[1])
LockNow == json_load(LockPath(fs, run_id))

\* every field but run_config.n_concurrent_trials is as it was
OtherFieldsKept(before, now) ==
    /\ DOMAIN now = DOMAIN before
    /\ \A k \in DOMAIN before \ {"run_config"} : now[k] = before[k]
    /\ "run_config" \in DOMAIN before =>
           /\ DOMAIN now.run_config = DOMAIN before.run_config \cup {"n_concurrent_trials"}
           /\ \A k \in DOMAIN before.run_config \ {"n_concurrent_trials"} :
                  now.run_config[k] = before.run_config[k]

-----------------------------------------------------------------------------
(* C11 .. C14: the life of a run *)

\* C11: run_id goes from unset to a value at most once; once it has a value,
\* no step of the controller or of its environment (a later burst, a status
\* read, an adjustment, a lock mutation) changes or clears it.
C11_RunIdSetOnce == [][run_id # NoRun => run_id' = run_id]_vars

\* C11 witness: the run captured after the first burst is still the
\* controller's run after a second burst and two lock mutations, although
\* another run directory is by now the most recently modified one.
C11_Witness ==
    /\ run_id = NewRun
    /\ burst_count >= 2
    /\ proc = "none"
    /\ lock_writes >= 2
    /\ RunDirsWithLock(fs, mtime_order) = <<NewRun, OldRun>>

\* C12: the first command is a start ("run") carrying the concurrency of that
\* moment, the output directory and the pass-through arguments, and no run
\* id; every later command is a resume carrying the captured run id and the
\* runs directory, and neither a concurrency nor the pass-through arguments.
\* Hence start mode is used exactly once.
C12_StartOnceThenResume ==
    \A i \in 1..Len(invocations) :
        LET cmd == invocations[i]
        IN IF i = 1
           THEN /\ cmd.mode = "run"
                /\ cmd.n_concurrent = INITIAL_CONCURRENT
                /\ cmd.output_path = RUNS_DIR
                /\ cmd.tb_args = TB_ARGS
                /\ "run_id" \notin DOMAIN cmd
           ELSE /\ cmd.mode = "resume"
                /\ run_id # NoRun
                /\ cmd.run_id = run_id
                /\ cmd.runs_dir = RUNS_DIR
                /\ DOMAIN cmd \cap {"n_concurrent", "tb_args", "output_path"} = {}

\* C12 witness: three commands, the last two issued after the concurrency
\* had been raised
C12_Witness ==
    /\ Len(invocations) = 3
    /\ current_concurrent > INITIAL_CONCURRENT
    /\ invocations[3].mode = "resume"

\* C13 as stated: an interrupted run returns 130, and no run that ended as
\* COMPLETED or FAILED returns 130.
C13_InterruptDistinct ==
    /\ pc = "INTERRUPTED" => returned = <<INTERRUPT_EXIT>>
    /\ pc \in {"COMPLETED", "FAILED"} => returned # <<INTERRUPT_EXIT>>

\* C13 amended: an interrupted run returns 130; a COMPLETED run returns 0;
\* a FAILED run returns the child's non-zero exit code, which is 130 only
\* when the child itself exited with 130.
C13_InterruptDistinctUnlessChild130 ==
    /\ pc = "INTERRUPTED" => returned = <<INTERRUPT_EXIT>>
    /\ pc = "COMPLETED" => returned = <<0>>
    /\ pc = "FAILED" => /\ returned = <<rcs[burst_count]>>
                        /\ rcs[burst_count] # 0

\* C13 witness: an interrupt during the sleep that follows the second burst
C13_Witness ==
    /\ pc = "INTERRUPTED"
    /\ returned = <<INTERRUPT_EXIT>>
    /\ burst_count = 2
    /\ sleeps = 2

Terminal == {"COMPLETED", "FAILED", "INTERRUPTED"}

Running == {"BURST", "SLEEP"}

\* C14: run() moves NOT_STARTED -> RUNNING -> {COMPLETED, FAILED,
\* INTERRUPTED}; every entry into a burst counts one burst; run() has
\* returned exactly in the three terminal states, and from then on no command
\* is issued, no load is sampled and tb.lock is not written.
C14_TerminalAbsorbing ==
    [][/\ pc = "NOT_STARTED" => pc' \in {"NOT_STARTED", "BURST"}
       /\ pc \in Running => pc' \in Running \cup Terminal
       /\ (returned # <<>>) = (pc \in Terminal)
       /\ (burst_count' # burst_count) =>
              (pc' = "BURST" /\ burst_count' = burst_count + 1)
       /\ (pc \in Terminal \/ returned # <<>>) =>
              UNCHANGED <<pc, returned, burst_count, invocations, load_samples,
                          lock_writes, fs, sleeps>>]_vars

\* C14 witness: a run that failed in its third burst, after two sleeps, two
\* load samples and two lock mutations
C14_Witness ==
    /\ pc = "FAILED"
    /\ burst_count = 3
    /\ load_samples = 2
    /\ lock_writes = 2

-----------------------------------------------------------------------------
(* C15 .. C20: get_run_status *)

StatusIds == {"t1", "t2", "t3"}

TheLock == fs[NewRun].lock
TheResults == fs[NewRun].results

\* the identifiers that occur in the entries of a results.json, by looking
\* for each identifier in turn
NamedIds(results) ==
    IF results.kind = "json"
    THEN LET trials == Trials(json_load(results))
         IN {t \in StatusIds : \E i \in 1..Len(trials) :
                 "task_id" \in DOMAIN trials[i] /\ trials[i].task_id = t}
    ELSE {}

\* the identifiers that occur in the task_ids list of a tb.lock
ListedIds(lock) == IF lock.kind = "json" THEN DeclaredIds(json_load(lock)) ELSE {}

\* get_run_status has been called for a known run
StatusReturned == run_id # NoRun /\ status_kind # "none"

\* C15 as stated: whatever the results.json (present with entries, or absent),
\* completed is the number of distinct task ids among its entries, 0 when it
\* is absent.
C15_CompletedDistinctAnyRead ==
    (StatusReturned /\ TheResults.kind \in {"absent", "json"}) =>
        status.completed = Cardinality(NamedIds(TheResults))

\* C15 amended: when the status read raises nothing (tb.lock and results.json,
\* where present, open and parse, and every entry has a task_id), completed is
\* the number of distinct task ids among the entries of results.json, passed
\* or failed, and 0 when results.json is absent.
C15_CompletedDistinct ==
    (StatusReturned /\ status_kind = "read") =>
        /\ status.completed = Cardinality(NamedIds(TheResults))
        /\ TheResults.kind = "absent" => status.completed = 0

\* C15 witness: two entries for the same task, one passed and one failed,
\* counted once
C15_Witness ==
    /\ StatusReturned /\ status_kind = "read"
    /\ TheResults.kind = "json"
    /\ Trials(json_load(TheResults)) =
           <<[task_id |-> "t1", is_resolved |-> TRUE],
             [task_id |-> "t1", is_resolved |-> FALSE]>>
    /\ status.completed = 1

\* C16: when the status read raises nothing, total is the number of unique
\* task ids in the task_ids list of tb.lock (a repeated id counting once),
\* and 0 when tb.lock is absent.
C16_TotalUnique ==
    (StatusReturned /\ status_kind = "read") =>
        /\ status.total = Cardinality(ListedIds(TheLock))
        /\ TheLock.kind = "absent" => status.total = 0

\* C17 as stated: every status returned has completed <= total.
C17_CompletedAtMostTotalAnyFiles ==
    status_kind # "none" => status.completed <= status.total

\* C17 amended: every status returned has completed <= total, provided that
\* every task id named in results.json is listed in tb.lock whenever the
\* status was read from the files.
C17_CompletedAtMostTotal ==
    (/\ status_kind # "none"
     /\ status_kind = "read" => NamedIds(TheResults) \subseteq ListedIds(TheLock))
        => status.completed <= status.total

\* C17 witness: both listed tasks have a result
C17_Witness ==
    /\ StatusReturned /\ status_kind = "read"
    /\ ListedIds(TheLock) = {"t1", "t2"}
    /\ NamedIds(TheResults) = {"t1", "t2"}
    /\ status.completed = 2 /\ status.total = 2

\* C18: every status returned has incomplete = max(0, total - completed):
\* the difference when total >= completed, and 0, never a negative number,
\* when results.json names more distinct ids than tb.lock lists.
C18_IncompleteClamped ==
    status_kind # "none" =>
        /\ status.incomplete >= 0
        /\ status.total >= status.completed =>
               status.incomplete = status.total - status.completed
        /\ status.total < status.completed => status.incomplete = 0

\* C18 witness: results.json names two tasks, tb.lock lists one
C18_Witness ==
    /\ StatusReturned /\ status_kind = "read"
    /\ status.total = 1 /\ status.completed = 2 /\ status.incomplete = 0

\* C19: a call of get_run_status in which reading tb.lock or results.json
\* fails (a file that does not open, a document that does not parse, an entry
\* without task_id) returns total = 0, completed = 0, incomplete = 0, returns
\* normally (the caller goes on), and leaves run_id, current_concurrent and
\* burst_count as they were.
C19_ReadFailureGivesZeros ==
    [][status_kind' = "raised" =>
           /\ status' = ZeroStatus
           /\ pc' = pc
           /\ UNCHANGED <<run_id, current_concurrent, burst_count>>]_vars

\* C19 witness: tb.lock lists two tasks; results.json has an entry without a
\* task_id
C19_Witness ==
    /\ StatusReturned /\ status_kind = "raised"
    /\ status = ZeroStatus
    /\ Cardinality(ListedIds(TheLock)) = 2
    /\ TheResults.kind = "json" /\ HasKeyError(json_load(TheResults))

\* C20: while run_id is unset, get_run_status returns total = 0,
\* completed = 0, incomplete = 0 and neither looks for nor opens tb.lock or
\* results.json.
C20_NoRunNoRead ==
    (run_id = NoRun /\ status_kind # "none") =>
        /\ status = ZeroStatus
        /\ status_reads = {}

\* C20 witness: a status returned while run_id is unset, with a run
\* directory present whose files would have given a non-zero status
C20_Witness ==
    /\ run_id = NoRun /\ status_kind = "no_run"
    /\ ListedIds(TheLock) = {"t1", "t2"}
    /\ NamedIds(TheResults) = {"t1"}

-----------------------------------------------------------------------------
(* C21 .. C28 *)

LockErrors == {"read_error", "open_error", "write_error"}

\* C22: when the lock mutation at the end of a successful burst meets a read,
\* parse or write failure, run() goes on as it would have after a mutation
\* that succeeded on the same files (to the sleep, or to its return when the
\* status says all tasks are done), and current_concurrent and run_id are as
\* they were.
C22_FailedMutationProceeds ==
    [][(/\ pc = "BURST" /\ pc' \in {"SLEEP", "COMPLETED"}
        /\ run_id' # NoRun
        /\ lock_io' \in LockErrors) =>
           LET lock == LockPath(fs, run_id')
               done == SetLock(fs, run_id', UpdatedLock(lock, current_concurrent, "ok"))
           IN /\ pc' = AfterBurst(0, get_run_status(done, run_id', status_io' = "failed")).pc
              /\ current_concurrent' = current_concurrent
              /\ run_id # NoRun => run_id' = run_id]_vars

\* C23: _update_lock_concurrency, as run_burst calls it, does nothing when no
\* run id is known or tb.lock does not exist: no file is created or written
\* and no error is met.
C23_NoOpWithoutLockOrRun ==
    [][(run_id = NoRun \/ ~Exists(LockPath(fs, run_id))) =>
           /\ fs' = fs
           /\ lock_writes' = lock_writes
           /\ lock_io' \notin LockErrors \cup {"written"}]_vars

\* C23 witness: the mutation was requested with 3 for a known run whose
\* directory has no tb.lock
C23_Witness ==
    /\ run_id = NewRun
    /\ lock_io = "absent"
    /\ current_concurrent = 3
    /\ fs[NewRun].lock = NoFile
    /\ lock_writes = 0

C25_OneSamplePerInterval ==
    [][/\ load_samples' = Max(0, burst_count' - 1)
       /\ load_samples' <= sleeps'
       /\ load_samples' # load_samples =>
              /\ pc = "SLEEP" /\ pc' = "BURST"
              /\ load_samples' = load_samples + 1
              /\ burst_count' = burst_count + 1
              /\ sleeps = burst_count
              /\ old_concurrent' = current_concurrent]_vars

\* C25 witness: a run that completed in its third burst, with two samples
C25_Witness ==
    /\ pc = "COMPLETED"
    /\ burst_count = 3
    /\ sleeps = 2
    /\ load_samples = 2

\* d is the most recently modified run directory that has a tb.lock
MostRecentWithLock(fsys, order, d) ==
    /\ d \in RunIds
    /\ fsys[d].kind = "dir"
    /\ Exists(fsys[d].lock)
    /\ \A i, j \in 1..Len(order) :
           (order[i] = d /\ j > i) =>
               ~(fsys[order[j]].kind = "dir" /\ Exists(fsys[order[j]].lock))

\* C26: run_id changes only at the end of the first burst and only if that
\* burst exited 0, and then to the most recently modified run directory that
\* has a tb.lock; a first burst that exited 0 with such a directory present
\* does set it.  A failed first burst and every later burst leave run_id as
\* it was.
C26_Discovery ==
    [][/\ run_id' # run_id =>
              /\ pc = "BURST" /\ burst_count = 1 /\ rcs = <<0>>
              /\ run_id = NoRun
              /\ MostRecentWithLock(fs, mtime_order, run_id')
       /\ (/\ pc = "BURST" /\ pc' \notin {"BURST", "INTERRUPTED"}
           /\ burst_count = 1 /\ rcs = <<0>>
           /\ \E d \in RunIds : fs[d].kind = "dir" /\ Exists(fs[d].lock)) =>
              MostRecentWithLock(fs, mtime_order, run_id')]_vars

\* C26 witness: the new run was captured although an older run directory
\* with a tb.lock exists
C26_Witness ==
    /\ run_id = NewRun
    /\ burst_count = 1
    /\ proc = "none"
    /\ RunDirsWithLock(fs, mtime_order) = <<OldRun, NewRun>>

\* C27: adjust_concurrency returns True exactly when current_concurrent after
\* the call differs from its value before, and changes neither run_id nor
\* burst_count nor any file.
C27_ReturnsChanged ==
    [][load_samples' = load_samples + 1 =>
           /\ changed' = (current_concurrent' # current_concurrent)
           /\ UNCHANGED <<run_id, burst_count, fs, mtime_order>>]_vars

\* C27 witness: a call that halved 2 to 1 and returned True
C27_Witness ==
    /\ load_samples >= 1
    /\ changed
    /\ old_concurrent = 2
    /\ current_concurrent = 1

\* C28: burst_count is 0 before the first burst, never decreases, grows by
\* exactly one with every command handed to subprocess.run, and so equals the
\* number of commands started, whatever their return codes.
C28_BurstCountIsInvocations ==
    [][/\ pc = "NOT_STARTED" => burst_count = 0
       /\ burst_count' = Len(invocations')
       /\ burst_count' \in {burst_count, burst_count + 1}
       /\ Len(invocations') = Len(invocations) + 1 => burst_count' = burst_count + 1
       /\ Len(rcs') <= burst_count']_vars

\* C28 witness: three bursts, the last of which failed
C28_Witness ==
    /\ burst_count = 3
    /\ Len(rcs) = 3
    /\ rcs[3] # 0
    /\ pc = "FAILED"

-----------------------------------------------------------------------------
(* C29, C30: task_timeouts.py and cmux_agent.py *)

\* the timeout of one task, read off the table entry by entry
TableTimeout(task_id) ==
    IF \E k \in DOMAIN TASK_TIMEOUTS : k = task_id
    THEN TASK_TIMEOUTS[task_id]
    ELSE 900

\* C29: for a non-empty list of task ids, get_max_timeout_for_tasks returns
\* the timeout of one of its tasks, and none of its tasks has a larger one,
\* the timeout of a task being its table value and 900 (NORMAL_TIMEOUT) when
\* the table does not list it; for the empty list it returns 3600
\* (VERY_SLOW_TIMEOUT).
C29_MaxTimeout ==
    timeout_result # <<>> =>
        IF timeout_tasks = <<>>
        THEN timeout_result = <<3600>>
        ELSE /\ \E i \in 1..Len(timeout_tasks) :
                    timeout_result[1] = TableTimeout(timeout_tasks[i])
             /\ \A i \in 1..Len(timeout_tasks) :
                    timeout_result[1] >= TableTimeout(timeout_tasks[i])

\* C29 witness: a fast task and an unknown task give the unknown task's 900
C29_Witness ==
    /\ timeout_tasks = <<"hello-world", "unknown-task">>
    /\ timeout_result = <<900>>

\* C30: evaluating _env with CMUX_TIMEOUT_MS set to a value that is not a
\* number raises ValueError; no environment is returned.
C30_NonNumericTimeoutRaises ==
    (/\ agent_env # NotEvaluated
     /\ "CMUX_TIMEOUT_MS" \in DOMAIN agent.environ
     /\ agent.environ["CMUX_TIMEOUT_MS"] = "not-a-number") =>
        agent_env.kind = "ValueError"

-----------------------------------------------------------------------------
(* C31 .. C36 *)

C32_NoResumeWithoutRun ==
    [][(burst_count' = burst_count + 1 /\ burst_count' >= 2) =>
           /\ run_id # NoRun
           /\ run_id' = run_id
           /\ invocations'[burst_count'].mode = "resume"
           /\ invocations'[burst_count'].run_id = run_id]_vars

\* C32 witness: the second burst in flight, resuming the captured run
C32_Witness ==
    /\ burst_count = 2
    /\ proc = "running"
    /\ run_id = NewRun
    /\ invocations[2].run_id = NewRun

\* C33: when the first burst has exited 0 and the capture found no run
\* directory with a tb.lock, run() has returned 0 after that one burst, with
\* no sleep, no load sample, no status read from a file and no lock mutation.
C33_NoDiscoveryReturnsZero ==
    (/\ rcs # <<>> /\ rcs[1] = 0
     /\ proc = "none"
     /\ run_id = NoRun) =>
        /\ pc = "COMPLETED"
        /\ returned = <<0>>
        /\ burst_count = 1
        /\ sleeps = 0
        /\ load_samples = 0
        /\ lock_writes = 0 /\ lock_io = "none"
        /\ status_reads = {}

\* C33 witness: the tool made a run directory without a tb.lock and exited 0
C33_Witness ==
    /\ rcs = <<0>>
    /\ run_id = NoRun
    /\ pc = "COMPLETED"
    /\ fs[NewRun].kind = "dir"
    /\ fs[NewRun].lock = NoFile

\* C36: at the end of a burst that exited non-zero the controller writes no
\* tb.lock, reads no status and samples no load; run_id, current_concurrent
\* and burst_count stay as they are, and run() returns the code.
C36_FailedBurstNoEffect ==
    [][(/\ pc = "BURST" /\ proc = "exited"
        /\ rcs[burst_count] # 0
        /\ pc' # pc) =>
           /\ pc' = "FAILED"
           /\ UNCHANGED <<fs, mtime_order, lock_vars, status_vars, load_samples, sleeps,
                          run_id, current_concurrent, burst_count, invocations>>]_vars

\* C36 witness: the second burst failed; the lock mutation, the status read
\* and the sample are those of the first burst and the interval after it
C36_Witness ==
    /\ pc = "FAILED"
    /\ burst_count = 2
    /\ lock_writes = 1
    /\ status_calls = 1
    /\ load_samples = 1

\* the least k with 2^k >= n
CeilLog2(n) == CHOOSE k \in 0..(n + 1) : 2^k >= n /\ (k = 0 \/ 2^(k - 1) < n)

\* the bound the concurrency goes to while the load stays on the side of pc
SideBound == IF pc = "LOW_LOAD" THEN max_concurrent ELSE 1

\* one adjustment, every sample so far on the side of pc: the concurrency
\* does not move away from the bound of that side, and from the
\* ceil(log2(max_concurrent))-th adjustment on it is that bound
ConvergesStep ==
    /\ pc = "LOW_LOAD" => current_concurrent' >= current_concurrent
    /\ pc = "HIGH_LOAD" => current_concurrent' <= current_concurrent
    /\ load_samples' >= CeilLog2(max_concurrent) => current_concurrent' = SideBound
    /\ current_concurrent = SideBound => current_concurrent' = SideBound

\* C35 as stated: for any max_concurrent, with every load sample on the same
\* side of the threshold the concurrency moves monotonically, is at the bound
\* of that side after at most ceil(log2(max_concurrent)) adjustments and
\* stays there.
C35_ConvergesAnyMax ==
    [][load_samples' = load_samples + 1 => ConvergesStep]_vars

\* C35 amended: for max_concurrent >= 1, with every load sample on the same
\* side of the threshold the concurrency moves monotonically, is at the bound
\* of that side (max_concurrent below the threshold, 1 above it) after at
\* most ceil(log2(max_concurrent)) adjustments and stays there.
C35_Converges ==
    [][(load_samples' = load_samples + 1 /\ max_concurrent >= 1) => ConvergesStep]_vars

\* C35 witness: from 1 under low load the third adjustment reaches
\* max_concurrent = 8 and the fourth leaves it there
C35_Witness ==
    /\ pc = "LOW_LOAD"
    /\ max_concurrent = 2 * MaxConcurrentBound + 2
    /\ load_samples = CeilLog2(max_concurrent) + 1
    /\ old_concurrent = max_concurrent
    /\ current_concurrent = max_concurrent
    /\ ~changed

\* the tasks the tb.lock of the captured run declares, and those of them that
\* its results.json records
RunTasks == IF run_id = NoRun THEN {} ELSE ListedIds(LockPath(fs, run_id))
RunRecorded == IF run_id = NoRun THEN {} ELSE RecordedIds(ResultsPath(fs, run_id)) \cap RunTasks

\* one of the assumptions of C34 has failed: an interrupt, a burst that exited
\* non-zero, no run captured after the first burst, a status read that raised,
\* or fewer declared tasks recorded than bursts have ended (some burst recorded
\* no new one)
AssumptionBroken ==
    \/ pc = "INTERRUPTED"
    \/ \E i \in 1..Len(rcs) : rcs[i] # 0
    \/ pc \in {"SLEEP", "COMPLETED"} /\ run_id = NoRun
    \/ status_kind = "raised"
    \/ pc \in {"SLEEP", "COMPLETED"} /\ Cardinality(RunRecorded) < burst_count

\* C34: with no interrupt, every burst exiting 0, the run captured after the
\* first burst, every status read succeeding and every burst recording a new
\* declared task, no more bursts have ended than there are tasks, run() has
\* returned 0 as soon as every task is recorded, and run() eventually
\* returns 0.
C34_ReturnsZeroWithinTaskCount ==
    /\ []((pc \in {"SLEEP", "COMPLETED"} /\ ~AssumptionBroken) =>
            /\ burst_count <= Cardinality(RunTasks)
            /\ RunRecorded = RunTasks => (pc = "COMPLETED" /\ returned = <<0>>))
    /\ <>(AssumptionBroken \/ (returned = <<0>> /\ burst_count <= Cardinality(RunTasks)))

\* C34 witness: two tasks, one recorded by each of two bursts, and run() has
\* returned 0
C34_Witness ==
    /\ ~AssumptionBroken
    /\ pc = "COMPLETED"
    /\ returned = <<0>>
    /\ burst_count = 2
    /\ Cardinality(RunTasks) = 2
    /\ status = [total |-> 2, completed |-> 2, incomplete |-> 0]

====
